---- MODULE Spec2Model ----
(***************************************************************************)
(* A model of the crewsynq-server ADS-B proxy.  Three revisions of the     *)
(* server live in the sources:                                             *)
(*   - the regional-cache server (src/unnamed/part_000, lines 1-101),      *)
(*     backed by the adsb.fi adapter (src/adsbAdapter.js);                 *)
(*   - the adapter-only server (src/unnamed/part_000, lines 104-184);      *)
(*   - the OpenSky server (src/index.js) with its OAuth2 token, its retry  *)
(*     loop and the /api/adsb cache.                                       *)
(*                                                                         *)
(* Numbers.  JavaScript doubles are modelled in fixed point: latitudes and *)
(* longitudes are integers in millidegrees (51.04 deg = 51040), times are  *)
(* integers in milliseconds.  Values that are not numbers (null,           *)
(* undefined, NaN, Infinity, strings) are tagged records, see JS values.   *)
(***************************************************************************)
EXTENDS Integers, Sequences, FiniteSets, TLC

VARIABLES
    clock,           \* Date.now(), milliseconds
    REGIONAL_CACHE,  \* part_000:15  Map regionalKey -> {timestamp, flights}
    req,             \* regional server: the locals of each handler awaiting the adapter
    out,             \* regional server: the response sent by the last step, with the
                     \*   locals of its handler and the regions it handed to the adapter
    credentials,     \* index.js:31-32  OPEN_SKY_CLIENT_ID and _SECRET are set
    cachedToken,     \* index.js:23
    tokenExpiresAt,  \* index.js:24
    ADSB_CACHE,      \* index.js:137  Map bboxKey -> {at, payload}
    os,              \* OpenSky server: the locals of each handler
    osOut,           \* OpenSky server: the response sent by the last step, with the
                     \*   number of data calls its handler made
    pq,              \* query parsing: the query string of a request
    pRes,            \* query parsing: the bounds each route makes of it
    rawRec,          \* normalizer: a raw record of a provider's feed
    flightRec,       \* normalizer: the flights the provider's mapping makes of it
    geoBox,          \* GeoMath: a bounding box {lamin, lamax, lomin, lomax}
    geoCircle        \* GeoMath: the centre and radius bboxToCenterRadius makes of it

regionalOnly == <<REGIONAL_CACHE, req, out>>
parseOnly    == <<pq, pRes>>
openSkyOnly  == <<credentials, cachedToken, tokenExpiresAt, ADSB_CACHE, os, osOut>>
mapOnly      == <<rawRec, flightRec>>
geoOnly      == <<geoBox, geoCircle>>
vars         == <<clock, regionalOnly, openSkyOnly, parseOnly, mapOnly, geoOnly>>

----------------------------------------------------------------------------
(* JS values.  A number is [t |-> "num", n |-> <millidegrees or integer>]; *)
(* a string holding a decimal number is [t |-> "numstr", n |-> ...]; the   *)
(* others carry their tag only.                                            *)

Num(n)    == [t |-> "num", n |-> n]
NumStr(n) == [t |-> "numstr", n |-> n]
Null      == [t |-> "null"]
Undefined == [t |-> "undefined"]
NaN       == [t |-> "NaN"]
PosInf    == [t |-> "inf"]

\* x != null  (loose inequality: false for null and for undefined only)
NotNullish(v) == v.t \notin {"null", "undefined"}

\* Number.isFinite(v): a number value that is neither NaN nor infinite
NumberIsFinite(v) == v.t = "num"

\* v >= n and v <= n for a number n: the abstract relational comparison
\* converts v with ToNumber; a comparison with NaN is false.
JSGe(v, n) ==
    CASE v.t \in {"num", "numstr"} -> v.n >= n
      [] v.t = "inf"               -> TRUE
      [] v.t = "null"              -> 0 >= n
      [] OTHER                     -> FALSE

JSLt(v, n) ==
    CASE v.t \in {"num", "numstr"} -> v.n < n
      [] v.t = "null"              -> 0 < n
      [] OTHER                     -> FALSE

JSLe(v, n) ==
    CASE v.t \in {"num", "numstr"} -> v.n <= n
      [] v.t = "inf"               -> FALSE
      [] v.t = "null"              -> 0 <= n
      [] OTHER                     -> FALSE

Abs(x) == IF x < 0 THEN -x ELSE x

\* Math.round of a/b for integers a, b > 0 (round half up)
RoundDiv(a, b) == (a + b \div 2) \div b

----------------------------------------------------------------------------
(* Sequences as JS arrays                                                  *)

\* Array.prototype.filter is SelectSeq of the Sequences module;
\* Array.prototype.map is a function over the same indices.

\* Map.get / Map.set on a Map modelled as a function on the keys it holds
EmptyMap == [k \in {} |-> Undefined]
MapGet(m, k) == IF k \in DOMAIN m THEN m[k] ELSE Undefined
MapSet(m, k, v) == [x \in (DOMAIN m) \cup {k} |-> IF x = k THEN v ELSE m[x]]

----------------------------------------------------------------------------
(* Query strings.  A query parameter is the text the client sent, or       *)
(* Undefined when absent.  Texts are modelled by what parseFloat and       *)
(* Number make of them:                                                    *)
(*   Dec(n)    "51.04"      a plain decimal                                *)
(*   Prefix(n) "51.04abc"   a decimal followed by other characters        *)
(*   Blank     ""           the empty text                                 *)
(*   Word      "abc"        text that starts with no number                *)
(*   InfText   "Infinity"                                                  *)
(* The bbox parameter is Undefined or the sequence of the texts between    *)
(* its commas (what split(",") returns).                                   *)

Dec(n)    == [t |-> "text", form |-> "dec", n |-> n]
Prefix(n) == [t |-> "text", form |-> "prefix", n |-> n]
Blank     == [t |-> "text", form |-> "blank"]
Word      == [t |-> "text", form |-> "word"]
InfText   == [t |-> "text", form |-> "inf"]

\* parseFloat(s): the longest numeric prefix, else NaN
parseFloat(s) ==
    IF s.t # "text" THEN NaN
    ELSE CASE s.form \in {"dec", "prefix"} -> Num(s.n)
           [] s.form = "inf"               -> PosInf
           [] OTHER                        -> NaN

\* Number(s): the whole text must be a number; the empty text is 0
ToNumber(s) ==
    IF s.t # "text" THEN NaN
    ELSE CASE s.form = "dec"   -> Num(s.n)
           [] s.form = "blank" -> Num(0)
           [] s.form = "inf"   -> PosInf
           [] OTHER            -> NaN

\* truthiness of a number value: 0 and NaN are falsy
Truthy(v) == \/ (v.t = "num" /\ v.n # 0)
             \/ v.t = "inf"

\* a || b
Or2(a, b) == IF Truthy(a) THEN a ELSE b

\* arr[i] of a JS array (0-based), undefined past its end; x?.split(",")[i]
PartAt(bbox, i) ==
    IF bbox.t = "undefined" THEN Undefined
    ELSE IF i + 1 \in DOMAIN bbox.parts THEN bbox.parts[i + 1] ELSE Undefined

BboxText(parts) == [t |-> "text", form |-> "list", parts |-> parts]

\* part_000:42-45.  The four bounds of the regional-cache route.
RegionalDefaults == <<51040, 51050, -114070, -114080>>

RegionalBound(q, name, i) ==
    Or2(Or2(parseFloat(q[name]), parseFloat(PartAt(q.bbox, i))),
        Num(RegionalDefaults[i + 1]))

RegionalBounds(q) ==
    [south |-> RegionalBound(q, "lamin", 0),
     north |-> RegionalBound(q, "lamax", 1),
     west  |-> RegionalBound(q, "lomin", 2),
     east  |-> RegionalBound(q, "lomax", 3)]

\* part_000:118-120 and index.js:15-17.  DEFAULT_BBOX with BBOX unset.
DEFAULT_BBOX == <<Num(50700), Num(51300), Num(-114400), Num(-113700)>>

\* element i (1-based) of a destructured array, undefined past its end
Elem(arr, i) == IF i \in DOMAIN arr THEN arr[i] ELSE Undefined

\* part_000:125-146 and index.js:62-83.  parseBoundsFromQuery (the key
\* field is the four bounds joined by commas, modelled as their tuple).
parseBoundsFromQuery(q) ==
    LET lamin == parseFloat(q.lamin)
        lamax == parseFloat(q.lamax)
        lomin == parseFloat(q.lomin)
        lomax == parseFloat(q.lomax)
    IN  IF \A v \in {lamin, lamax, lomin, lomax} : NumberIsFinite(v)
        THEN [lamin |-> lamin, lamax |-> lamax, lomin |-> lomin, lomax |-> lomax,
              key |-> <<lamin, lamax, lomin, lomax>>]
        ELSE LET arr == IF q.bbox.t = "undefined" \/ q.bbox.parts = <<Blank>>
                        THEN DEFAULT_BBOX
                        ELSE [i \in DOMAIN q.bbox.parts |-> ToNumber(q.bbox.parts[i])]
             IN  [lamin |-> Elem(arr, 1), lamax |-> Elem(arr, 2),
                  lomin |-> Elem(arr, 3), lomax |-> Elem(arr, 4),
                  key |-> <<Elem(arr, 1), Elem(arr, 2), Elem(arr, 3), Elem(arr, 4)>>]

----------------------------------------------------------------------------
(* GeoMath in fixed point                                                  *)

\* Math.cos of an angle given in millidegrees, scaled by 10000: the Taylor
\* series to the eighth power on the angle in radians (scaled by 10000).
\* Exact to 1e-4 for latitudes up to 60 degrees.
CosE4(mdeg) ==
    LET x  == (Abs(mdeg) * 17453) \div 100000
        x2 == (x * x) \div 10000
        x4 == (x2 * x2) \div 10000
        x6 == (x4 * x2) \div 10000
        x8 == (x6 * x2) \div 10000
    IN  10000 - (x2 \div 2) + (x4 \div 24) - (x6 \div 720) + (x8 \div 40320)

\* part_000:18-29.  getRegionalBbox: a box of 50 km around the centre.
\* latOffset = 50 / 111.0 degrees; lonOffset = 50 / (111.32 * cos(lat)).
getRegionalBbox(centerLat, centerLon) ==
    LET radiusKm  == 50
        latOffset == (radiusKm * 1000 * 10) \div 1110
        lonOffset == (((radiusKm * 1000 * 10000) \div CosE4(centerLat)) * 100) \div 11132
    IN  [lamin |-> centerLat - latOffset,
         lamax |-> centerLat + latOffset,
         lomin |-> centerLon - lonOffset,
         lomax |-> centerLon + lonOffset]

\* Number.prototype.toFixed(1) of a number of millidegrees: the text of
\* the number rounded to one decimal.  A negative number keeps its sign
\* even when it rounds to zero ("-0.0"), so the text is the pair of the
\* sign and the tenths.
ToFixed1(x) == [neg |-> x < 0, tenths |-> (Abs(x) + 50) \div 100]

\* part_000:50.  `${centerLat.toFixed(1)},${centerLon.toFixed(1)}`
RegionalKeyOf(centerLat, centerLon) == <<ToFixed1(centerLat), ToFixed1(centerLon)>>

----------------------------------------------------------------------------
(* The great-circle distance of the adsb.fi adapter, in fixed point: angles *)
(* in radians and the values of sin, cos and sqrt are integers in          *)
(* millionths; distances are integers in metres.  Every product stays      *)
(* below 2^31 for latitudes up to 80 degrees and distances up to 2000 km.  *)
(* The result is exact to about half a kilometre, so the model tells boxes *)
(* of several degrees apart, not boxes of a few kilometres.                *)

KM_TO_NAUTICAL_MILES == 539957       \* adsbAdapter.js:10, in millionths

\* x * y in millionths, for 0 <= x, y < 1460000
MulE6(x, y) == (x * (y \div 1000)) \div 1000 + (x * (y % 1000)) \div 1000000

\* deg * (Math.PI / 180), from millidegrees to millionths of a radian
RadE6(mdeg) == mdeg * 17 + (mdeg * 4533) \div 10000

\* Math.sin and Math.cos of x >= 0 (millionths of a radian): Taylor series
SinE6(x) ==
    LET x2 == MulE6(x, x)
        x3 == MulE6(x2, x)
        x5 == MulE6(x3, x2)
        x7 == MulE6(x5, x2)
        x9 == MulE6(x7, x2)
    IN  x - (x3 \div 6) + (x5 \div 120) - (x7 \div 5040) + (x9 \div 362880)

CosE6(x) ==
    LET x2  == MulE6(x, x)
        x4  == MulE6(x2, x2)
        x6  == MulE6(x4, x2)
        x8  == MulE6(x6, x2)
        x10 == MulE6(x8, x2)
    IN  1000000 - (x2 \div 2) + (x4 \div 24) - (x6 \div 720) + (x8 \div 40320)
                - (x10 \div 3628800)

\* the largest s in lo..hi with s * s <= v
RECURSIVE ISqrt(_, _, _)
ISqrt(v, lo, hi) ==
    IF lo >= hi THEN lo
    ELSE LET mid == (lo + hi + 1) \div 2
         IN  IF mid * mid <= v THEN ISqrt(v, mid, hi) ELSE ISqrt(v, lo, mid - 1)

\* Math.sqrt of a in 0..1000000 (millionths), to 1/40000
SqrtE6(a) == 25 * ISqrt(a * 1600, 0, 40000)

\* Math.atan2(Math.sqrt(a), Math.sqrt(1 - a)) is the arcsine of sqrt(a);
\* the series of the arcsine of x (millionths), for x up to 0.5
AsinE6(x) ==
    LET x2 == MulE6(x, x)
        x3 == MulE6(x2, x)
        x5 == MulE6(x3, x2)
        x7 == MulE6(x5, x2)
        x9 == MulE6(x7, x2)
    IN  x + (x3 \div 6) + ((3 * x5) \div 40) + ((15 * x7) \div 336) + ((105 * x9) \div 3456)

\* adsbAdapter.js:15-27.  getHaversineDistance, millidegrees to metres.
getHaversineDistance(lat1, lon1, lat2, lon2) ==
    LET R      == 6371
        sinLat == SinE6(RadE6(Abs(lat2 - lat1)) \div 2)
        sinLon == SinE6(RadE6(Abs(lon2 - lon1)) \div 2)
        a      == MulE6(sinLat, sinLat) +
                  MulE6(MulE6(CosE6(RadE6(Abs(lat1))), CosE6(RadE6(Abs(lat2)))),
                        MulE6(sinLon, sinLon))
        c      == 2 * AsinE6(SqrtE6(a))
    IN  R * (c \div 1000) + (R * (c % 1000)) \div 1000

\* radiusInKm * KM_TO_NAUTICAL_MILES, from metres to thousandths of a
\* nautical mile
ToNauticalMiles(m) ==
    ((m \div 1000) * KM_TO_NAUTICAL_MILES) \div 1000
        + ((m % 1000) * KM_TO_NAUTICAL_MILES) \div 1000000

\* Math.ceil of a number of thousandths
MathCeil(x) == (x + 999) \div 1000

\* adsbAdapter.js:32-45.  bboxToCenterRadius; dist in nautical miles.
bboxToCenterRadius(bbox) ==
    LET south == bbox.lamin
        north == bbox.lamax
        west  == bbox.lomin
        east  == bbox.lomax
        centerLat  == (south + north) \div 2
        centerLon  == (west + east) \div 2
        radiusInKm == getHaversineDistance(centerLat, centerLon, north, east)
        radiusInNm == MathCeil(ToNauticalMiles(radiusInKm))
    IN  [lat |-> centerLat, lon |-> centerLon, dist |-> radiusInNm]

----------------------------------------------------------------------------
(* The adsb.fi adapter, src/adsbAdapter.js                                 *)

Arr(items) == [t |-> "array", items |-> items]   \* a JSON array
Ground == [t |-> "ground"]               \* the string "ground"
Text(s, pad) == [t |-> "string", s |-> s, pad |-> pad]   \* s followed by pad blanks

\* a ?? b
Coalesce(a, b) == IF NotNullish(a) THEN a ELSE b

\* Math.round(v) of a JS value: NaN for undefined, 0 for null
MathRound(v) ==
    CASE v.t = "num"  -> v
      [] v.t = "null" -> Num(0)
      [] v.t = "inf"  -> PosInf
      [] OTHER        -> NaN

\* v ? Math.round(v) : null
RoundOrNull(v) == IF Truthy(v) THEN MathRound(v) ELSE Null

\* (ac.flight || "").trim() || ac.hex
Callsign(ac) ==
    IF ac.flight.t = "string" /\ ac.flight.s # "" THEN Text(ac.flight.s, 0) ELSE ac.hex

\* likelyHeli without the category tier: the kinematic test decides alone
likelyHeliKinematicOnly(ac) ==
    LET alt   == Coalesce(ac.alt_baro, ac.alt_geom)
        altOk == \/ ~NotNullish(alt)
                 \/ alt = Ground
                 \/ JSLt(alt, 9000)
        spdOk == \/ ~NotNullish(ac.gs)
                 \/ JSLt(ac.gs, 160)
    IN  altOk /\ spdOk

\* adsbAdapter.js:78-89
likelyHeli(ac) ==
    IF ac.category = Text("A5", 0) THEN TRUE
    ELSE LET alt   == Coalesce(ac.alt_baro, ac.alt_geom)
             altOk == \/ ~NotNullish(alt)
                      \/ alt = Ground
                      \/ JSLt(alt, 9000)
             spdOk == \/ ~NotNullish(ac.gs)
                      \/ JSLt(ac.gs, 160)
         IN  altOk /\ spdOk

\* adsbAdapter.js:51-72.  mapAdsbFiToFlight; last_seen is the epoch in
\* milliseconds that the ISO text is made from.
mapAdsbFiToFlight(ac) ==
    LET alt     == Coalesce(ac.alt_baro, ac.alt_geom)
        seenSec == Coalesce(ac.seen_pos, Coalesce(ac.seen, Num(0)))
    IN  [callsign  |-> Callsign(ac),
         type      |-> IF ac.t.t = "string" /\ ac.t.s # "" THEN ac.t ELSE Text("other", 0),
         latitude  |-> ac.lat,
         longitude |-> ac.lon,
         altitude  |-> IF alt = Ground THEN Num(0) ELSE MathRound(alt),
         speed     |-> RoundOrNull(ac.gs),
         heading   |-> RoundOrNull(ac.track),
         status    |-> IF alt = Ground THEN "landed" ELSE "active",
         agency    |-> Null,
         last_seen |-> IF seenSec.t = "num" THEN Num(seenSec.n * 1000) ELSE NaN,
         icao24    |-> ac.hex]

\* adsbAdapter.js:122.  ac.lat != null && ac.lon != null
HasPosition(ac) == NotNullish(ac.lat) /\ NotNullish(ac.lon)

\* adsbAdapter.js:123-126
TagFlight(ac) ==
    [f \in (DOMAIN mapAdsbFiToFlight(ac)) \cup {"likelyHeli"} |->
        IF f = "likelyHeli" THEN likelyHeli(ac) ELSE mapAdsbFiToFlight(ac)[f]]

\* adsbAdapter.js:121-126.  (json.aircraft || []).filter(...).map(...)
AdsbFlights(aircraft) ==
    IF aircraft.t # "array" THEN <<>>
    ELSE LET kept == SelectSeq(aircraft.items, HasPosition)
         IN  [i \in 1..Len(kept) |-> TagFlight(kept[i])]

\* adsbAdapter.js:95-134.  fetchFlightStates on the answer `up` of the
\* upstream server; nowMs is Date.now() when the body has been read.
\*   up.kind = "ok"      200 and a JSON body {now, aircraft}
\*             "http"    a status that is not ok (r.ok false)
\*             "network" fetch rejects
\*             "timeout" the AbortController aborts the fetch
\*             "badjson" r.json() rejects
fetchFlightStates(bbox, up, nowMs) ==
    CASE up.kind = "ok" ->
            [ok |-> TRUE,
             time |-> IF Truthy(up.now) THEN up.now.n \div 1000 ELSE nowMs \div 1000,
             flights |-> AdsbFlights(up.aircraft)]
      [] up.kind = "http" ->
            [ok |-> FALSE, message |-> <<"adsb.fi API", up.status>>]
      [] OTHER ->
            [ok |-> FALSE, message |-> <<up.kind>>]

----------------------------------------------------------------------------
(* The regional-cache server, src/unnamed/part_000 lines 1-101             *)

CACHE_TTL_MS == 30000

\* Bounds of the model
MaxReq   == 2      \* request handlers that may be in flight together
MaxTicks == 2      \* how often the clock advances

TickMs  == CACHE_TTL_MS \div 2
StartMs == 2 * CACHE_TTL_MS
ReqIds  == 1..MaxReq

\* Raw aircraft of the adsb.fi feed used as upstream answers
Aircraft(hex, lat, lon, alt, gs, category) ==
    [hex |-> Text(hex, 0), flight |-> Undefined, t |-> Undefined,
     lat |-> lat, lon |-> lon, alt_baro |-> alt, alt_geom |-> Undefined,
     gs |-> gs, track |-> Undefined, seen_pos |-> Undefined, seen |-> Undefined,
     category |-> category]

AcInside  == Aircraft("a1", Num(51020), Num(-114050), Num(3500), Num(90), Text("A5", 0))
AcEdge    == Aircraft("a2", Num(51040), Num(-114080), Ground, Num(0), Undefined)
AcFar     == Aircraft("a3", Num(51400), Num(-114050), Num(35000), Num(450), Undefined)
AcNoPos   == Aircraft("a4", Null, Num(-114050), Num(1000), Num(80), Undefined)
AcTextPos == Aircraft("a5", NumStr(51030), Num(-114040), Num(1000), Num(80), Undefined)

\* The answers the upstream server may give
Answers ==
    { [kind |-> "ok", now |-> Undefined, aircraft |-> Arr(<<AcInside, AcEdge, AcFar>>)],
      [kind |-> "ok", now |-> Num(StartMs), aircraft |-> Arr(<<AcNoPos, AcTextPos>>)],
      [kind |-> "ok", now |-> Undefined, aircraft |-> Undefined],
      [kind |-> "http", status |-> 503],
      [kind |-> "http", status |-> 404],
      [kind |-> "timeout"] }

\* The queries clients send to the regional-cache route
LatLonQuery(s, n, w, e) ==
    [lamin |-> Dec(s), lamax |-> Dec(n), lomin |-> Dec(w), lomax |-> Dec(e),
     bbox |-> Undefined]
BboxQuery(parts) ==
    [lamin |-> Undefined, lamax |-> Undefined, lomin |-> Undefined,
     lomax |-> Undefined, bbox |-> BboxText(parts)]

RegionalQueries ==
    { LatLonQuery(51000, 51040, -114080, -114000),     \* centre 51.02,-114.04
      LatLonQuery(51000, 51080, -114080, -114000),     \* centre 51.04,-114.04
      BboxQuery(<<Dec(51100), Dec(51140), Dec(-114080), Dec(-114000)>>) }

IdleReq == [pc |-> "idle"]
NoOut   == [r |-> 0]

\* The normalizer and GeoMath at rest: no record and no box is being mapped
PureIdle ==
    /\ rawRec = Undefined
    /\ flightRec = Undefined
    /\ geoBox = Undefined
    /\ geoCircle = Undefined

\* The OpenSky server at rest (it is not part of the regional-cache server)
OpenSkyIdle ==
    /\ credentials = TRUE
    /\ cachedToken = Null
    /\ tokenExpiresAt = 0
    /\ ADSB_CACHE = EmptyMap
    /\ os = [r \in ReqIds |-> IdleReq]
    /\ osOut = NoOut

RegionalInit ==
    /\ clock = StartMs
    /\ REGIONAL_CACHE = EmptyMap
    /\ req = [r \in ReqIds |-> IdleReq]
    /\ out = NoOut
    /\ OpenSkyIdle
    /\ pq = Undefined
    /\ pRes = Undefined
    /\ PureIdle

\* IsFresh with the age compared to the TTL taken in seconds
IsFreshInSeconds(cached, now) ==
    cached # Undefined /\ now - cached.timestamp < CACHE_TTL_MS \div 1000

\* part_000:57.  cached && (now - cached.timestamp < CACHE_TTL_MS)
IsFresh(cached, now) ==
    cached # Undefined /\ now - cached.timestamp < CACHE_TTL_MS

\* InViewport with the northern and eastern bounds exclusive
InViewportExclusive(f, south, north, west, east) ==
    /\ JSGe(f.latitude, south) /\ JSLt(f.latitude, north)
    /\ JSGe(f.longitude, west) /\ JSLt(f.longitude, east)

\* part_000:71-74.  The viewport filter.
InViewport(f, south, north, west, east) ==
    /\ JSGe(f.latitude, south) /\ JSLe(f.latitude, north)
    /\ JSGe(f.longitude, west) /\ JSLe(f.longitude, east)

visibleFlights(regionalFlights, south, north, west, east) ==
    LET keep(f) == InViewport(f, south, north, west, east)
    IN  SelectSeq(regionalFlights, keep)

\* part_000:76-84.  The payload of a successful response.
Payload(l, regionalFlights) ==
    LET visible == visibleFlights(regionalFlights, l.south, l.north, l.west, l.east)
    IN  [status |-> 200, ok |-> TRUE,
         time |-> (IF l.cached # Undefined /\ l.cached.timestamp # 0
                   THEN l.cached.timestamp ELSE l.now) \div 1000,
         count |-> Len(visible),
         bbox |-> <<l.south, l.north, l.west, l.east>>,
         flights |-> visible]

\* part_000:86-93.  The answer of the catch block.
RegionalError(message) ==
    [status |-> 500, ok |-> FALSE,
     error |-> "internal_server_error", detail |-> message]

\* part_000:41-55.  The locals of a handler once it has read the cache.
Locals(q, now, cache) ==
    LET b         == RegionalBounds(q)
        centerLat == (b.south.n + b.north.n) \div 2
        centerLon == (b.west.n + b.east.n) \div 2
        key       == RegionalKeyOf(centerLat, centerLon)
    IN  [south |-> b.south.n, north |-> b.north.n, west |-> b.west.n, east |-> b.east.n,
         centerLat |-> centerLat, centerLon |-> centerLon,
         regionalKey |-> key, now |-> now, cached |-> MapGet(cache, key)]

\* part_000:39-64 up to the first await: a request arrives, the handler
\* reads the clock and the cache and either answers from the cache or
\* calls the adapter and waits for the upstream server.
StartRequest(r, q) ==
    /\ req[r].pc = "idle"
    /\ LET l == Locals(q, clock, REGIONAL_CACHE)
       IN  IF IsFresh(l.cached, l.now)
           THEN /\ req' = req
                /\ out' = [r |-> r, l |-> l, calls |-> <<>>,
                           res |-> Payload(l, l.cached.flights)]
           ELSE /\ req' = [req EXCEPT ![r] =
                              [pc |-> "fetching", l |-> l,
                               region |-> getRegionalBbox(l.centerLat, l.centerLon)]]
                /\ out' = NoOut
    /\ UNCHANGED <<clock, REGIONAL_CACHE, openSkyOnly, parseOnly, mapOnly, geoOnly>>

\* FetchReturns appending the fetched records to those of the old entry
FetchReturnsAppending(r, up) ==
    /\ req[r].pc = "fetching"
    /\ up.kind = "ok"
    /\ LET l   == req[r].l
           got == fetchFlightStates(req[r].region, up, clock)
           old == MapGet(REGIONAL_CACHE, l.regionalKey)
           all == IF old = Undefined THEN got.flights ELSE old.flights \o got.flights
       IN  /\ REGIONAL_CACHE' = MapSet(REGIONAL_CACHE, l.regionalKey,
                                       [timestamp |-> l.now, flights |-> all])
           /\ out' = [r |-> r, l |-> l, calls |-> <<req[r].region>>,
                      res |-> Payload(l, all)]
    /\ req' = [req EXCEPT ![r] = IdleReq]
    /\ UNCHANGED <<clock, openSkyOnly, parseOnly, mapOnly, geoOnly>>

\* part_000:64-84.  The upstream server answers and the adapter returns:
\* the entry is stored and the response sent.
FetchReturns(r, up) ==
    /\ req[r].pc = "fetching"
    /\ up.kind = "ok"
    /\ LET l   == req[r].l
           got == fetchFlightStates(req[r].region, up, clock)
       IN  /\ REGIONAL_CACHE' = MapSet(REGIONAL_CACHE, l.regionalKey,
                                       [timestamp |-> l.now, flights |-> got.flights])
           /\ out' = [r |-> r, l |-> l, calls |-> <<req[r].region>>,
                      res |-> Payload(l, got.flights)]
    /\ req' = [req EXCEPT ![r] = IdleReq]
    /\ UNCHANGED <<clock, openSkyOnly, parseOnly, mapOnly, geoOnly>>

\* FetchThrows storing an empty entry for the key of the failed fetch
FetchThrowsAndStores(r, up) ==
    /\ req[r].pc = "fetching"
    /\ up.kind # "ok"
    /\ out' = [r |-> r, l |-> req[r].l, calls |-> <<req[r].region>>,
               res |-> RegionalError(fetchFlightStates(req[r].region, up, clock).message)]
    /\ req' = [req EXCEPT ![r] = IdleReq]
    /\ REGIONAL_CACHE' = MapSet(REGIONAL_CACHE, req[r].l.regionalKey,
                                [timestamp |-> req[r].l.now, flights |-> <<>>])
    /\ UNCHANGED <<clock, openSkyOnly, parseOnly, mapOnly, geoOnly>>

\* part_000:64, 86-93.  The adapter throws: the catch block answers.
FetchThrows(r, up) ==
    /\ req[r].pc = "fetching"
    /\ up.kind # "ok"
    /\ out' = [r |-> r, l |-> req[r].l, calls |-> <<req[r].region>>,
               res |-> RegionalError(fetchFlightStates(req[r].region, up, clock).message)]
    /\ req' = [req EXCEPT ![r] = IdleReq]
    /\ UNCHANGED <<clock, REGIONAL_CACHE, openSkyOnly, parseOnly, mapOnly, geoOnly>>

\* Time passes.
Tick ==
    /\ clock < StartMs + MaxTicks * TickMs
    /\ clock' = clock + TickMs
    /\ out' = NoOut
    /\ UNCHANGED <<REGIONAL_CACHE, req, openSkyOnly, parseOnly, mapOnly, geoOnly>>

RegionalNext ==
    \/ \E r \in ReqIds, q \in RegionalQueries : StartRequest(r, q)
    \/ \E r \in ReqIds, up \in Answers : FetchReturns(r, up)
    \/ \E r \in ReqIds, up \in Answers : FetchThrows(r, up)
    \/ Tick

SpecRegional == RegionalInit /\ [][RegionalNext]_vars

----------------------------------------------------------------------------
(* The OpenSky server, src/index.js                                        *)

CACHE_MS      == 5000
retries       == 1
TokenMarginMs == 60000
DefaultTtlSec == 1800

\* A state vector of the OpenSky feed: the array s, by index.
StateVector(icao24, lat, lon, baro, onGround, velocity) ==
    [i \in 0..13 |->
        CASE i = 0  -> Text(icao24, 0)
          [] i = 1  -> Text("", 2)
          [] i = 5  -> lon
          [] i = 6  -> lat
          [] i = 7  -> baro
          [] i = 8  -> onGround
          [] i = 9  -> velocity
          [] OTHER  -> Null]

True  == [t |-> "bool", b |-> TRUE]
False == [t |-> "bool", b |-> FALSE]

SvAirborne == StateVector("c01", Num(51020), Num(-114050), Num(1000), False, Num(50))
SvNoPos    == StateVector("c02", Null, Null, Null, True, Null)

\* The answers of the OpenSky data endpoint and of the token endpoint
DataAnswers ==
    { [kind |-> "ok", time |-> Undefined, states |-> Arr(<<SvAirborne, SvNoPos>>)],
      [kind |-> "http", status |-> 401],
      [kind |-> "http", status |-> 404],
      [kind |-> "http", status |-> 503],
      [kind |-> "timeout"] }

TokenAnswers ==
    { [kind |-> "ok", access_token |-> Text("t1", 0), expires_in |-> Undefined],
      [kind |-> "ok", access_token |-> Text("t2", 0), expires_in |-> Num(70)],
      [kind |-> "http", status |-> 503] }

\* The requests clients send to the OpenSky server
OpenSkyRequests ==
    { [route |-> "/api/adsb", q |-> LatLonQuery(51000, 51040, -114080, -114000)],
      [route |-> "/api/heli/live", q |-> BboxQuery(<<Dec(51000), Dec(51040), Dec(-114080), Dec(-114000)>>)] }

\* index.js:142-143.  m2ft and ms2kt: null stays null, else the rounded product.
m2ft(m)  == IF ~NotNullish(m) THEN Null ELSE Num(RoundDiv(m.n * 328084, 100000))
ms2kt(m) == IF ~NotNullish(m) THEN Null ELSE Num(RoundDiv(m.n * 194384, 100000))

\* a || b on any value: the empty text, 0, null, undefined, NaN and false are falsy
IsTruthy(v) ==
    CASE v.t = "string" -> v.s # "" \/ v.pad > 0
      [] v.t = "bool"   -> v.b
      [] OTHER          -> Truthy(v)

\* index.js:141-157.  toFlight; last_seen is the epoch in milliseconds.
toFlight(sv) ==
    LET seenSec == IF IsTruthy(sv[4]) THEN sv[4]
                   ELSE IF IsTruthy(sv[3]) THEN sv[3] ELSE Num(0)
    IN  [callsign  |-> IF sv[1].t = "string" /\ sv[1].s # "" THEN Text(sv[1].s, 0) ELSE sv[0],
         type      |-> Text("other", 0),
         latitude  |-> sv[6],
         longitude |-> sv[5],
         altitude  |-> m2ft(Coalesce(sv[13], sv[7])),
         speed     |-> ms2kt(sv[9]),
         heading   |-> sv[10],
         status    |-> IF IsTruthy(sv[8]) THEN "landed" ELSE "active",
         agency    |-> Null,
         last_seen |-> Num(seenSec.n * 1000),
         icao24    |-> sv[0]]

\* index.js:158-162.  likelyHeli of the OpenSky server, on a mapped flight.
likelyHeliOpenSky(f) ==
    LET altOk == ~NotNullish(f.altitude) \/ JSLt(f.altitude, 9000)
        spdOk == ~NotNullish(f.speed) \/ JSLt(f.speed, 160)
    IN  altOk /\ spdOk

\* index.js:191.  Number.isFinite(f.latitude) && Number.isFinite(f.longitude)
FinitePosition(f) == NumberIsFinite(f.latitude) /\ NumberIsFinite(f.longitude)

\* index.js:189-192.  map, filter on finite positions, tag.
OpenSkyFlights(states) ==
    LET tag(f) == [k \in (DOMAIN f) \cup {"likelyHeli"} |->
                      IF k = "likelyHeli" THEN likelyHeliOpenSky(f) ELSE f[k]]
        mapped == [i \in 1..Len(states) |-> toFlight(states[i])]
        kept == SelectSeq(mapped, FinitePosition)
    IN  [i \in 1..Len(kept) |-> tag(kept[i])]

\* index.js:28.  cachedToken && now < tokenExpiresAt - 60_000
TokenIsValid(now) == cachedToken # Null /\ now < tokenExpiresAt - TokenMarginMs

\* index.js:127-131.  The catch block of the retry loop: the error is kept;
\* on the last attempt the loop ends and the error is thrown (pc "failed"),
\* otherwise the handler sleeps before the next attempt.
Catch(h, err) ==
    [h EXCEPT !.lastErr = err, !.token = Null, !.tokNow = 0,
              !.pc = IF h.attempt = retries THEN "failed" ELSE "backoff"]

\* index.js:96-109, 26-47.  An attempt begins: getOpenSkyToken returns the
\* cached token and the data request is sent, or the credentials are
\* missing and it throws, or the token request is sent.
BeginAttempt(h, now) ==
    IF TokenIsValid(now)
    THEN [h EXCEPT !.pc = "data", !.token = cachedToken, !.refreshed = FALSE,
                   !.calls = h.calls + 1]
    ELSE IF ~credentials
         THEN Catch(h, [msg |-> "Missing OPEN_SKY_CLIENT_ID/OPEN_SKY_CLIENT_SECRET"])
         ELSE [h EXCEPT !.pc = "token", !.tokNow = now, !.refreshed = TRUE]

\* index.js:178-181 and 195-198.  The answers of the two catch blocks.
OpenSkyError(route, message) ==
    IF route = "/api/adsb"
    THEN [status |-> 502, error |-> "Upstream failure", detail |-> message]
    ELSE [status |-> 502, ok |-> FALSE, error |-> "upstream_failure", detail |-> message]

\* index.js:172, 177, 194.  The successful answers.
OpenSkySuccess(h, payload) ==
    IF h.route = "/api/adsb"
    THEN [status |-> 200, payload |-> payload]
    ELSE [status |-> 200, ok |-> TRUE, time |-> payload.time,
          count |-> Len(OpenSkyFlights(payload.states)),
          bbox |-> <<h.b.lamin, h.b.lamax, h.b.lomin, h.b.lomax>>,
          flights |-> OpenSkyFlights(payload.states)]

\* The handler h of request r goes on: it waits, or fetchOpenSkyStates has
\* thrown and the route answers with the error.
Continue(r, h) ==
    IF h.pc = "failed"
    THEN /\ os' = [os EXCEPT ![r] = IdleReq]
         /\ osOut' = [r |-> r, route |-> h.route, calls |-> h.calls,
                      res |-> OpenSkyError(h.route, h.lastErr)]
    ELSE /\ os' = [os EXCEPT ![r] = h]
         /\ osOut' = NoOut

\* index.js:166-175 and 185-188 up to the first await.
OsStart(r, rq) ==
    /\ os[r].pc = "idle"
    /\ LET b      == parseBoundsFromQuery(rq.q)
           cached == MapGet(ADSB_CACHE, b.key)
           h      == [pc |-> "begin", route |-> rq.route, b |-> b,
                      now |-> IF rq.route = "/api/adsb" THEN clock ELSE 0,
                      attempt |-> 0, lastErr |-> Undefined, token |-> Null, tokNow |-> 0,
                      calls |-> 0, refreshed |-> FALSE, after401 |-> FALSE]
       IN  IF rq.route = "/api/adsb" /\ cached # Undefined /\ clock - cached.at < CACHE_MS
           THEN /\ os' = os
                /\ osOut' = [r |-> r, route |-> rq.route, calls |-> 0,
                             res |-> [status |-> 200, payload |-> cached.payload]]
           ELSE Continue(r, BeginAttempt(h, clock))
    /\ UNCHANGED <<clock, credentials, cachedToken, tokenExpiresAt, ADSB_CACHE, regionalOnly, parseOnly, mapOnly, geoOnly>>

\* index.js:43-58.  The token endpoint answers (no timer bounds this call).
OsTokenAnswer(r, ans) ==
    /\ os[r].pc = "token"
    /\ LET h == os[r]
       IN  IF ans.kind = "ok"
           THEN /\ cachedToken' = ans.access_token
                /\ tokenExpiresAt' = h.tokNow +
                      (IF NotNullish(ans.expires_in) THEN ans.expires_in.n
                       ELSE DefaultTtlSec) * 1000
                /\ Continue(r, [h EXCEPT !.pc = "data", !.token = ans.access_token,
                                         !.tokNow = 0, !.calls = h.calls + 1])
           ELSE /\ UNCHANGED <<cachedToken, tokenExpiresAt>>
                /\ Continue(r, Catch(h, [msg |-> "OpenSky token", status |-> ans.status]))
    /\ UNCHANGED <<clock, credentials, ADSB_CACHE, regionalOnly, parseOnly, mapOnly, geoOnly>>

\* index.js:102-126, 176-177, 189-194.  The data endpoint answers.
OsDataAnswer(r, ans) ==
    /\ os[r].pc = "data"
    /\ LET h == os[r]
       IN  CASE ans.kind = "ok" ->
                  LET payload == [time |-> IF NotNullish(ans.time) THEN ans.time.n
                                           ELSE clock \div 1000,
                                  states |-> ans.states.items]
                  IN  /\ os' = [os EXCEPT ![r] = IdleReq]
                      /\ osOut' = [r |-> r, route |-> h.route, calls |-> h.calls,
                                   res |-> OpenSkySuccess(h, payload)]
                      /\ ADSB_CACHE' = IF h.route = "/api/adsb"
                                       THEN MapSet(ADSB_CACHE, h.b.key,
                                                   [at |-> h.now, payload |-> payload])
                                       ELSE ADSB_CACHE
             [] ans.kind = "http" /\ ans.status = 401 /\ h.attempt < retries ->
                  /\ Continue(r, [h EXCEPT !.pc = "sleep401", !.token = Null])
                  /\ UNCHANGED ADSB_CACHE
             [] ans.kind = "http" /\ ~(ans.status = 401 /\ h.attempt < retries) ->
                  /\ Continue(r, Catch(h, [msg |-> "OpenSky", status |-> ans.status]))
                  /\ UNCHANGED ADSB_CACHE
             [] OTHER ->
                  /\ Continue(r, Catch(h, [msg |-> ans.kind]))
                  /\ UNCHANGED ADSB_CACHE
    /\ UNCHANGED <<clock, credentials, cachedToken, tokenExpiresAt, regionalOnly, parseOnly, mapOnly, geoOnly>>

\* index.js:115-116, 130, 96.  The sleep ends and the next attempt begins.
OsWake(r) ==
    /\ os[r].pc \in {"sleep401", "backoff"}
    /\ Continue(r, BeginAttempt([os[r] EXCEPT !.attempt = os[r].attempt + 1,
                                              !.after401 = (os[r].pc = "sleep401")],
                                 clock))
    /\ UNCHANGED <<clock, credentials, cachedToken, tokenExpiresAt, ADSB_CACHE, regionalOnly, parseOnly, mapOnly, geoOnly>>

\* Time passes.
OsTick ==
    /\ clock < StartMs + MaxTicks * TickMs
    /\ clock' = clock + TickMs
    /\ osOut' = NoOut
    /\ UNCHANGED <<credentials, cachedToken, tokenExpiresAt, ADSB_CACHE, os, regionalOnly, parseOnly, mapOnly, geoOnly>>

OpenSkyInit ==
    /\ clock = StartMs
    /\ REGIONAL_CACHE = EmptyMap
    /\ req = [r \in ReqIds |-> IdleReq]
    /\ out = NoOut
    /\ credentials \in BOOLEAN
    /\ cachedToken = Null
    /\ tokenExpiresAt = 0
    /\ ADSB_CACHE = EmptyMap
    /\ os = [r \in ReqIds |-> IdleReq]
    /\ osOut = NoOut
    /\ pq = Undefined
    /\ pRes = Undefined
    /\ PureIdle

OpenSkyNext ==
    \/ \E r \in ReqIds, rq \in OpenSkyRequests : OsStart(r, rq)
    \/ \E r \in ReqIds, ans \in TokenAnswers : OsTokenAnswer(r, ans)
    \/ \E r \in ReqIds, ans \in DataAnswers : OsDataAnswer(r, ans)
    \/ \E r \in ReqIds : OsWake(r)
    \/ OsTick

SpecOpenSky == OpenSkyInit /\ [][OpenSkyNext]_vars

\* The timers of the OpenSky server fire: a handler asleep between two
\* attempts wakes (index.js:115, 130), and a data call that got no answer
\* is aborted by its timer (index.js:99-100).  The token call has no timer
\* (index.js:43-47) and the upstream servers owe no answer, so nothing
\* else is taken to happen eventually.
OpenSkyFairness ==
    \A r \in ReqIds :
        /\ WF_vars(OsWake(r))
        /\ WF_vars(OsDataAnswer(r, [kind |-> "timeout"]))

SpecOpenSkyLive == OpenSkyInit /\ [][OpenSkyNext]_vars /\ OpenSkyFairness

----------------------------------------------------------------------------
(* Query parsing on its own: the bounds the routes make of a query string  *)

\* The texts a client may give for a bound
BoundTexts(n) == {Undefined, Dec(n), Dec(0), Prefix(n), Blank, Word, InfText}

ParseQueries ==
    { [lamin |-> a, lamax |-> b, lomin |-> c, lomax |-> d, bbox |-> x] :
        a \in BoundTexts(51000),
        b \in {Undefined, Dec(51040), Word},
        c \in {Undefined, Dec(-114080), Dec(0)},
        d \in {Undefined, Dec(-114000)},
        x \in { Undefined,
                BboxText(<<Blank>>),
                BboxText(<<Word>>),
                BboxText(<<Dec(50800), Dec(51240), Dec(-114200), Dec(-113880)>>),
                BboxText(<<Dec(50800), Blank, Dec(-114200), Prefix(-113880)>>),
                BboxText(<<Dec(50800), Dec(51240)>>) } }

ParseInit ==
    /\ clock = StartMs
    /\ REGIONAL_CACHE = EmptyMap
    /\ req = [r \in ReqIds |-> IdleReq]
    /\ out = NoOut
    /\ OpenSkyIdle
    /\ pq \in ParseQueries
    /\ pRes = Undefined
    /\ PureIdle

\* part_000:42-45.  The regional-cache route parses the query.
ParseRegional ==
    /\ pRes = Undefined
    /\ pRes' = [route |-> "regional", bounds |-> RegionalBounds(pq)]
    /\ UNCHANGED <<clock, pq, regionalOnly, openSkyOnly, mapOnly, geoOnly>>

\* part_000:152 and index.js:168, 187.  The other routes parse the query.
ParseBounds ==
    /\ pRes = Undefined
    /\ pRes' = [route |-> "parseBoundsFromQuery",
                bounds |-> LET b == parseBoundsFromQuery(pq)
                           IN  [south |-> b.lamin, north |-> b.lamax,
                                west |-> b.lomin, east |-> b.lomax]]
    /\ UNCHANGED <<clock, pq, regionalOnly, openSkyOnly, mapOnly, geoOnly>>

ParseNext == ParseRegional \/ ParseBounds

SpecParse == ParseInit /\ [][ParseNext]_vars

----------------------------------------------------------------------------
(* The normalizer and the classifier on their own: the flights each        *)
(* provider's mapping makes of one raw record                              *)

\* adsb.fi aircraft: alt_baro is a number of feet, "ground" or absent,
\* alt_geom a number of feet or absent, gs a number of knots or absent.
RawAdsbFi ==
    { [provider |-> "adsb.fi",
       rec |-> [Aircraft("a1", Num(51020), Num(-114050), baro, gs, cat)
                   EXCEPT !.alt_geom = geo]] :
        baro \in {Undefined, Null, Ground, Num(0), Num(8999), Num(9000), Num(35000)},
        geo  \in {Undefined, Num(1200), Num(12000)},
        gs   \in {Undefined, Null, Num(0), Num(159), Num(160), Num(450)},
        cat  \in {Undefined, Text("A5", 0), Text("A1", 0)} }

\* OpenSky state vectors: s[7] and s[13] are altitudes in metres or null,
\* s[8] is the on-ground flag, s[9] the velocity in m/s or null.
RawOpenSky ==
    { [provider |-> "opensky",
       rec |-> [StateVector("c01", Num(51020), Num(-114050), s7, onGround, velocity)
                   EXCEPT ![13] = s13]] :
        s7       \in {Null, Num(0), Num(1000), Num(2743), Num(2744), Num(5000)},
        s13      \in {Null, Num(1100), Num(3000)},
        onGround \in {True, False},
        velocity \in {Null, Num(0), Num(82), Num(83), Num(200)} }

MapInit ==
    /\ clock = StartMs
    /\ REGIONAL_CACHE = EmptyMap
    /\ req = [r \in ReqIds |-> IdleReq]
    /\ out = NoOut
    /\ OpenSkyIdle
    /\ pq = Undefined
    /\ pRes = Undefined
    /\ rawRec \in RawAdsbFi \cup RawOpenSky
    /\ flightRec = Undefined
    /\ geoBox = Undefined
    /\ geoCircle = Undefined

\* adsbAdapter.js:121-126.  The adsb.fi adapter maps and tags the record.
NormalizeAdsbFi ==
    /\ rawRec.provider = "adsb.fi"
    /\ flightRec = Undefined
    /\ flightRec' = Arr(AdsbFlights(Arr(<<rawRec.rec>>)))
    /\ UNCHANGED <<clock, rawRec, regionalOnly, openSkyOnly, parseOnly, geoOnly>>

\* index.js:189-192.  The OpenSky route maps and tags the state vector.
NormalizeOpenSky ==
    /\ rawRec.provider = "opensky"
    /\ flightRec = Undefined
    /\ flightRec' = Arr(OpenSkyFlights(<<rawRec.rec>>))
    /\ UNCHANGED <<clock, rawRec, regionalOnly, openSkyOnly, parseOnly, geoOnly>>

MapNext == NormalizeAdsbFi \/ NormalizeOpenSky

SpecMap == MapInit /\ [][MapNext]_vars

----------------------------------------------------------------------------
(* GeoMath on its own: the circle bboxToCenterRadius makes of a box        *)

\* Boxes of whole degrees, 0 to 20 degrees high and 20 or 10 degrees wide,
\* between 60 S and 60 N, in millidegrees
GeoBoxes ==
    { [lamin |-> 1000 * south, lamax |-> 1000 * (south + height),
       lomin |-> 1000 * we[1], lomax |-> 1000 * we[2]] :
        south  \in {10 * k : k \in -6..4},
        height \in {0, 10, 20},
        we     \in {<<-10, 10>>, <<0, 20>>, <<-120, -110>>} }

GeoInit ==
    /\ clock = StartMs
    /\ REGIONAL_CACHE = EmptyMap
    /\ req = [r \in ReqIds |-> IdleReq]
    /\ out = NoOut
    /\ OpenSkyIdle
    /\ pq = Undefined
    /\ pRes = Undefined
    /\ rawRec = Undefined
    /\ flightRec = Undefined
    /\ geoBox \in GeoBoxes
    /\ geoCircle = Undefined

\* adsbAdapter.js:97.  fetchFlightStates converts the box it is given.
ToCenterRadius ==
    /\ geoCircle = Undefined
    /\ geoCircle' = bboxToCenterRadius(geoBox)
    /\ UNCHANGED <<clock, geoBox, regionalOnly, openSkyOnly, parseOnly, mapOnly>>

GeoNext == ToCenterRadius

SpecGeo == GeoInit /\ [][GeoNext]_vars

----------------------------------------------------------------------------
(* Properties of the regional-cache server                                 *)

\* The number x of millidegrees rounds to the one-decimal text k.
RoundsTo(x, k) ==
    /\ k.neg = (x < 0)
    /\ 100 * k.tenths - 50 <= Abs(x)
    /\ Abs(x) < 100 * k.tenths + 50

\* The box whose centre is (lat, lon) belongs to the cache key k.
CentreRoundsTo(lat, lon, k) == RoundsTo(lat, k[1]) /\ RoundsTo(lon, k[2])

\* Request r arrives in this step with the locals l.
Arrives(r, l) ==
    /\ req[r].pc = "idle"
    /\ \/ req'[r].pc = "fetching" /\ req'[r].l = l
       \/ out'.r = r /\ out'.l = l

ArrivingLocals(r) ==
    IF req'[r].pc = "fetching" THEN req'[r].l
    ELSE IF out'.r = r THEN out'.l ELSE [now |-> -1]

\* The latitude or longitude v lies in [lo, hi].
LiesIn(v, lo, hi) == v.t \in {"num", "numstr"} /\ lo <= v.n /\ v.n <= hi

\* The records of `flights` that lie in the box of the locals l, in order.
Clipped(flights, l) ==
    LET inBox(f) == /\ LiesIn(f.latitude, l.south, l.north)
                    /\ LiesIn(f.longitude, l.west, l.east)
    IN  SelectSeq(flights, inBox)

\* C1.  Cache freshness and sharing: when a request arrives whose box
\* centre rounds to a key K that holds an entry with now - timestamp < TTL,
\* whatever the extents of the box, the response is sent at once from the
\* records of that entry, the entry is left as it is, and no upstream call
\* is made.
C1_CacheFreshness ==
    [][\A r \in ReqIds : \A k \in DOMAIN REGIONAL_CACHE :
          LET l == ArrivingLocals(r)
          IN  ( /\ l.now # -1
                /\ Arrives(r, l)
                /\ CentreRoundsTo((l.south + l.north) \div 2, (l.west + l.east) \div 2, k)
                /\ clock - REGIONAL_CACHE[k].timestamp < CACHE_TTL_MS )
              => /\ out'.r = r
                 /\ out'.calls = <<>>
                 /\ out'.res.status = 200
                 /\ out'.res.flights = Clipped(REGIONAL_CACHE[k].flights, l)
                 /\ req'[r].pc = "idle"
                 /\ REGIONAL_CACHE' = REGIONAL_CACHE
      ]_vars

\* C1 witness: a request answered from an entry stored earlier, with a box
\* that clips the entry's records.
C1_Witness ==
    /\ out.r # 0
    /\ out.calls = <<>>
    /\ out.res.status = 200
    /\ out.l.now > out.l.cached.timestamp
    /\ out.res.count > 0
    /\ out.res.count < Len(out.l.cached.flights)

\* C2.  The region handed to the adapter is a function of the key alone:
\* two requests waiting for the adapter with the same key sent it the same
\* region.
C2_RegionFromKey ==
    \A r1, r2 \in ReqIds :
        ( /\ req[r1].pc = "fetching"
          /\ req[r2].pc = "fetching"
          /\ req[r1].l.regionalKey = req[r2].l.regionalKey )
        => req[r1].region = req[r2].region

\* C3.  Viewport filter: the flights of every successful response are
\* exactly the records of the key's entry that lie in the requested box,
\* bounds included, and count is their number.
C3_ViewportExact ==
    (out.r # 0 /\ out.res.status = 200)
    => /\ out.l.regionalKey \in DOMAIN REGIONAL_CACHE
       /\ out.res.flights = Clipped(REGIONAL_CACHE[out.l.regionalKey].flights, out.l)
       /\ out.res.count = Len(out.res.flights)
       /\ out.res.bbox = <<out.l.south, out.l.north, out.l.west, out.l.east>>

\* C3 witness: a response that keeps a record on the edge of the box and
\* drops a record of the entry outside it.
C3_Witness ==
    /\ out.r # 0
    /\ out.res.status = 200
    /\ \E i \in DOMAIN out.res.flights :
          /\ out.res.flights[i].latitude = Num(out.l.north)
          /\ out.res.flights[i].longitude = Num(out.l.west)
    /\ out.res.count < Len(REGIONAL_CACHE[out.l.regionalKey].flights)

\* C6.  Transient failures are retried by every adapter: a request of the
\* regional-cache server whose upstream call failed transiently (5xx,
\* timeout) is answered with the error only after a retry was made.
IsTransient(message) == message \in {<<"adsb.fi API", 503>>, <<"timeout">>}

C6_AdsbFiRetries ==
    (out.r # 0 /\ out.res.status # 200 /\ IsTransient(out.res.detail))
    => Len(out.calls) > 1

\* C7.  Every upstream failure is answered 502 upstream_failure.
C7_UpstreamFailure502 ==
    (out.r # 0 /\ out.res.status # 200)
    => /\ out.res.status = 502
       /\ out.res.error = "upstream_failure"

\* C8.  A failed fetch leaves no trace in the cache: the step that answers
\* a request with the adapter's error, and the step in which that request
\* arrived, leave every entry as it was; and every stored entry holds the
\* records of a successful answer, stamped with a clock reading.
StoredFlights == {AdsbFlights(up.aircraft) : up \in {a \in Answers : a.kind = "ok"}}

C8_FailureLeavesCache ==
    [][ /\ (out'.r # 0 /\ out'.res.status # 200) => REGIONAL_CACHE' = REGIONAL_CACHE
        /\ (\E r \in ReqIds : req[r].pc = "idle" /\ req'[r].pc = "fetching")
              => REGIONAL_CACHE' = REGIONAL_CACHE
        /\ \A k \in DOMAIN REGIONAL_CACHE' :
              /\ REGIONAL_CACHE'[k].flights \in StoredFlights
              /\ REGIONAL_CACHE'[k].timestamp <= clock'
        /\ DOMAIN REGIONAL_CACHE \subseteq DOMAIN REGIONAL_CACHE'
      ]_vars

\* C8 witness: a fetch for a key has failed while the cache holds an entry
\* for that key and one for another key.
C8_Witness ==
    /\ out.r # 0
    /\ out.res.status # 200
    /\ out.l.regionalKey \in DOMAIN REGIONAL_CACHE
    /\ Cardinality(DOMAIN REGIONAL_CACHE) > 1

\* C10.  Record validity: every record stored in the cache or sent to a
\* client has a finite number for its latitude and for its longitude.
C10_RegionalRecordsFinite ==
    /\ \A k \in DOMAIN REGIONAL_CACHE :
          \A i \in DOMAIN REGIONAL_CACHE[k].flights :
              FinitePosition(REGIONAL_CACHE[k].flights[i])
    /\ (out.r # 0 /\ out.res.status = 200)
          => \A i \in DOMAIN out.res.flights : FinitePosition(out.res.flights[i])

----------------------------------------------------------------------------
(* Properties of the OpenSky server                                        *)

\* C4.  Auth retry: a data request answered 401 is retried exactly once,
\* the retry is made after a token request was sent (a forced refresh, even
\* when the cached token is not within 60 s of expiry), and a second 401
\* is surfaced after exactly two data calls.
C4_AuthRetryRefreshes ==
    /\ \A r \in ReqIds :
          (os[r].pc = "data" /\ os[r].after401)
          => os[r].refreshed /\ os[r].calls = 2
    /\ (osOut.r # 0 /\ osOut.res.status = 502
          /\ osOut.res.detail = [msg |-> "OpenSky", status |-> 401])
          => osOut.calls = 2

\* C5.  A 4xx answer other than 401 is not retried: the handler ends with
\* that error, having made exactly one data call.
IsRejected(err) == err = [msg |-> "OpenSky", status |-> 404]

C5_RejectedNotRetried ==
    /\ \A r \in ReqIds : os[r].pc # "idle" => ~IsRejected(os[r].lastErr)
    /\ (osOut.r # 0 /\ osOut.res.status = 502 /\ IsRejected(osOut.res.detail))
          => osOut.calls = 1

----------------------------------------------------------------------------
(* Properties of query parsing                                             *)

IsFiniteNum(v) == v.t = "num"

\* The lamin/lamax/lomin/lomax form, or the bbox form, of the query q
\* parses to four finite numbers.
LatLonFormParses(q) ==
    \A name \in {"lamin", "lamax", "lomin", "lomax"} : IsFiniteNum(parseFloat(q[name]))

BboxFormParses(q) ==
    /\ q.bbox # Undefined
    /\ Len(q.bbox.parts) >= 4
    /\ \A i \in 1..4 : q.bbox.parts[i].form = "dec"

DefaultBoxOf(route) ==
    IF route = "regional"
    THEN [south |-> Num(RegionalDefaults[1]), north |-> Num(RegionalDefaults[2]),
          west |-> Num(RegionalDefaults[3]), east |-> Num(RegionalDefaults[4])]
    ELSE [south |-> DEFAULT_BBOX[1], north |-> DEFAULT_BBOX[2],
          west |-> DEFAULT_BBOX[3], east |-> DEFAULT_BBOX[4]]

\* C9.  Malformed input is replaced by defaults: when neither form of the
\* query parses to four finite numbers the box is the default box; the
\* four bounds are always finite; and the bounds of a lamin/lamax/lomin/
\* lomax form that parses are used as given, 0 included.
C9_MalformedInputDefaults ==
    pRes # Undefined =>
       /\ (~LatLonFormParses(pq) /\ ~BboxFormParses(pq))
             => pRes.bounds = DefaultBoxOf(pRes.route)
       /\ \A k \in {"south", "north", "west", "east"} : IsFiniteNum(pRes.bounds[k])
       /\ LatLonFormParses(pq)
             => pRes.bounds = [south |-> parseFloat(pq.lamin), north |-> parseFloat(pq.lamax),
                               west |-> parseFloat(pq.lomin), east |-> parseFloat(pq.lomax)]

----------------------------------------------------------------------------
(* Properties of the normalizer and the classifier                         *)

\* The value v is a known number that is at least n.
KnownAtLeast(v, n) == v.t = "num" /\ v.n >= n

\* The altitude an adsb.fi aircraft reports: barometric, else geometric.
ReportedAlt(ac) == IF ac.alt_baro.t \in {"null", "undefined"} THEN ac.alt_geom ELSE ac.alt_baro

\* C11.  Classifier tier precedence: a record with category A5 is tagged
\* likelyHeli whatever its altitude and speed; a record with no category
\* is tagged likelyHeli exactly when neither its known altitude is at
\* least 9000 ft nor its known ground speed at least 160 kt.  Records of
\* the OpenSky feed carry no category and are judged on their altitude in
\* feet and speed in knots.
C11_TierPrecedence ==
    flightRec # Undefined =>
        \A i \in DOMAIN flightRec.items :
            LET f == flightRec.items[i]
            IN  IF rawRec.provider = "adsb.fi"
                THEN /\ rawRec.rec.category = Text("A5", 0) => f.likelyHeli
                     /\ rawRec.rec.category = Undefined =>
                           f.likelyHeli = ~( \/ KnownAtLeast(ReportedAlt(rawRec.rec), 9000)
                                             \/ KnownAtLeast(rawRec.rec.gs, 160) )
                ELSE f.likelyHeli = ~( \/ KnownAtLeast(f.altitude, 9000)
                                       \/ KnownAtLeast(f.speed, 160) )

\* C11 witness: an aircraft of category A5 at 35000 ft and 450 kt has been
\* tagged likelyHeli.
C11_Witness ==
    /\ flightRec # Undefined
    /\ rawRec.provider = "adsb.fi"
    /\ rawRec.rec.category = Text("A5", 0)
    /\ rawRec.rec.alt_baro = Num(35000)
    /\ rawRec.rec.gs = Num(450)
    /\ Len(flightRec.items) = 1
    /\ flightRec.items[1].likelyHeli

\* C12.  On-ground normalization, for both mappings: a record on the
\* ground (alt "ground" in the adsb.fi feed, s[8] true in the OpenSky feed)
\* gets altitude 0 and status landed; any other record gets status active
\* and its barometric altitude, or its geometric altitude when the
\* barometric one is absent (OpenSky: s[7] barometric, s[13] geometric,
\* in metres).
C12_OnGroundNormalized ==
    flightRec # Undefined =>
        \A i \in DOMAIN flightRec.items :
            LET f == flightRec.items[i]
                r == rawRec.rec
            IN  IF rawRec.provider = "adsb.fi"
                THEN /\ ReportedAlt(r) = Ground
                           => f.altitude = Num(0) /\ f.status = "landed"
                     /\ ReportedAlt(r).t = "num"
                           => f.altitude = ReportedAlt(r) /\ f.status = "active"
                ELSE /\ r[8] = True
                           => f.altitude = Num(0) /\ f.status = "landed"
                     /\ r[8] = False
                           => /\ f.status = "active"
                              /\ f.altitude = m2ft(IF r[7] = Null THEN r[13] ELSE r[7])

----------------------------------------------------------------------------
(* Properties of GeoMath                                                   *)

\* C13.  Circle covers box: the radius bboxToCenterRadius returns is at
\* least the great-circle distance, in nautical miles, from the centre it
\* returns to each of the four corners of the box.
C13_CircleCoversBox ==
    geoCircle # Undefined =>
        \A lat \in {geoBox.lamin, geoBox.lamax} :
            \A lon \in {geoBox.lomin, geoBox.lomax} :
                ToNauticalMiles(getHaversineDistance(geoCircle.lat, geoCircle.lon, lat, lon))
                    <= 1000 * geoCircle.dist

----------------------------------------------------------------------------
(* Properties of the OpenSky token                                         *)

\* C14.  Token refresh is single-flight: at most one token request is in
\* flight at any time; a caller that finds the token absent or close to
\* expiry while a refresh is in flight waits for it and sends none.
C14_SingleFlightRefresh ==
    Cardinality({r \in ReqIds : os[r].pc = "token"}) <= 1

\* The expiry time the caller r stores when its token request is answered
\* by ans: the time its refresh started plus expires_in (1800 s by default).
ExpiryOf(r, ans) ==
    os[r].tokNow + 1000 * (IF ans.expires_in.t = "num" THEN ans.expires_in.n
                           ELSE DefaultTtlSec)

\* C15.  Token lifecycle: a caller sends a token request only when no
\* token is cached or now >= expiresAt - 60 s, and gets the cached token
\* without one otherwise; a successful refresh stores the new token with
\* expiresAt = (time the refresh started) + expires_in; and every token
\* handed to a caller for a data request is more than 60 s from expiry at
\* that moment.
C15_TokenLifecycle ==
    [][\A r \in ReqIds :
          /\ (os[r].pc # "token" /\ os'[r].pc = "token")
                => ~(cachedToken # Null /\ clock < tokenExpiresAt - TokenMarginMs)
          /\ (os[r].pc \notin {"token", "data"} /\ os'[r].pc = "data")
                => /\ cachedToken # Null /\ clock < tokenExpiresAt - TokenMarginMs
                   /\ os'[r].token = cachedToken
                   /\ UNCHANGED <<cachedToken, tokenExpiresAt>>
          /\ (os[r].pc = "token" /\ os'[r].pc = "data")
                => /\ \E ans \in TokenAnswers :
                         /\ ans.kind = "ok"
                         /\ cachedToken' = ans.access_token
                         /\ tokenExpiresAt' = ExpiryOf(r, ans)
                   /\ os'[r].token = cachedToken'
          /\ (os[r].pc # "data" /\ os'[r].pc = "data")
                => clock < tokenExpiresAt' - TokenMarginMs
      ]_vars

\* C16.  Every request terminates: every upstream call is bounded by a
\* timer, so a handler that has started is answered eventually (it leaves
\* the set of running handlers), even when an upstream server never
\* answers.
C16_EveryRequestAnswered ==
    \A r \in ReqIds : (os[r].pc # "idle") ~> (os[r].pc = "idle")

----------------------------------------------------------------------------
(* Properties of the regional cache under concurrent requests              *)

\* C17.  Cache access is serialized per key: no two requests wait for an
\* upstream fetch for the same regional key at the same time.
C17_OneFetchPerKey ==
    \A r1, r2 \in ReqIds :
        ( /\ r1 # r2
          /\ req[r1].pc = "fetching"
          /\ req[r2].pc = "fetching" )
        => req[r1].l.regionalKey # req[r2].l.regionalKey

\* C18.  Cache entries never go backwards: no step lowers the timestamp of
\* the entry stored for a key, so an entry is never replaced by the result
\* of a request that started before the request that stored it.
C18_EntriesNeverGoBack ==
    [][\A k \in DOMAIN REGIONAL_CACHE :
          /\ k \in DOMAIN REGIONAL_CACHE'
          /\ REGIONAL_CACHE'[k].timestamp >= REGIONAL_CACHE[k].timestamp
      ]_vars

\* C19.  The time of every successful response is the timestamp, in whole
\* seconds, of the entry whose records it serves: the entry held for the
\* request's key when the response is sent (the stored entry on a hit,
\* the entry just stored on a miss or a refresh).
C19_TimeIsEntryTimestamp ==
    (out.r # 0 /\ out.res.status = 200)
    => /\ out.l.regionalKey \in DOMAIN REGIONAL_CACHE
       /\ out.res.time = REGIONAL_CACHE[out.l.regionalKey].timestamp \div 1000

\* C20.  Frame of the cache operations: a request answered without an
\* upstream call leaves the whole cache as it was; a request whose fetch
\* returns replaces the entry of its own key by the timestamp of the
\* request and exactly the records of the fetch, and leaves the entry of
\* every other key as it was; no step removes an entry.
C20_CacheFrame ==
    [][ /\ (out'.r # 0 /\ out'.calls = <<>>) => REGIONAL_CACHE' = REGIONAL_CACHE
        /\ \A r \in ReqIds :
              (req[r].pc = "fetching" /\ req'[r].pc = "idle" /\ out'.res.status = 200)
              => /\ DOMAIN REGIONAL_CACHE' = DOMAIN REGIONAL_CACHE \cup {req[r].l.regionalKey}
                 /\ \A k \in DOMAIN REGIONAL_CACHE \ {req[r].l.regionalKey} :
                        REGIONAL_CACHE'[k] = REGIONAL_CACHE[k]
                 /\ \E up \in Answers :
                        /\ up.kind = "ok"
                        /\ REGIONAL_CACHE'[req[r].l.regionalKey] =
                              [timestamp |-> req[r].l.now,
                               flights |-> AdsbFlights(up.aircraft)]
        /\ DOMAIN REGIONAL_CACHE \subseteq DOMAIN REGIONAL_CACHE'
      ]_vars

\* C20 witness: a fetch has replaced the stale entry of its key by other
\* records while the cache holds an entry for another key.
C20_Witness ==
    /\ out.r # 0
    /\ out.res.status = 200
    /\ out.calls # <<>>
    /\ out.l.cached # Undefined
    /\ out.l.cached.flights # <<>>
    /\ REGIONAL_CACHE[out.l.regionalKey].flights # out.l.cached.flights
    /\ REGIONAL_CACHE[out.l.regionalKey].flights # <<>>
    /\ Cardinality(DOMAIN REGIONAL_CACHE) > 1

====
